---- MODULE Spec2Model ----
(***************************************************************************)
(* Model of the page generation workflow (automation/pipeline_pages.py,    *)
(* run_page_pipeline) and of the batch driver that runs it over the Case   *)
(* Store (automation/run_all.py, run_all_cases).                           *)
(*                                                                         *)
(* Every call to the LLM gateway is one step: its reply is drawn from a    *)
(* small set of replies (a JSON object of some shape, a JSON value that is *)
(* not an object, or an exception raised by call_llm_json).  Lengths are   *)
(* the lengths of the stripped strings; scores are scaled by 100.          *)
(***************************************************************************)
EXTENDS Integers, Sequences, FiniteSets, TLC

\* ---------------------------------------------------------------- constants
MAX_ROUNDS == 3
HEADLINE_MIN == 10
BODY_MIN == 50
LENIENT_LEGAL == 80
DEFAULT_MAX_CASES == 10

\* ------------------------------------------------------------------- bounds
NumCases == 2
MaxRuns == 2

\* A body length of NullLen stands for a JSON null (a value without .strip()).
NullLen == 0 - 1

\* ------------------------------------------------------------------- drafts
\* A draft as the validator sees it.  kind: "dict" | "list" (a JSON value that
\* is not an object) | "none" (Python None).  err: the "_error" key is present.
Doc(c, m, h, s, b, sl, ti, de) ==
    [kind |-> "dict", err |-> FALSE, content |-> c, meta |-> m,
     headline |-> h, sections |-> s, body |-> b,
     slug |-> sl, title |-> ti, description |-> de,
     fallback |-> FALSE, warnings |-> <<>>, ver |-> 0]

GoodDoc == Doc(TRUE, TRUE, HEADLINE_MIN, 1, BODY_MIN, TRUE, TRUE, TRUE)
EmptyDoc == Doc(FALSE, FALSE, 0, 0, 0, FALSE, FALSE, FALSE)
NoneDraft == [EmptyDoc EXCEPT !.kind = "none"]
ListDraft == [EmptyDoc EXCEPT !.kind = "list"]
ErrorMarker == [EmptyDoc EXCEPT !.err = TRUE]

\* The JSON objects the Writer and the Fixer can answer with.
DraftReplies ==
    { GoodDoc,
      [GoodDoc EXCEPT !.headline = HEADLINE_MIN - 1],
      [GoodDoc EXCEPT !.sections = 0, !.body = 0],
      [GoodDoc EXCEPT !.body = BODY_MIN - 1],
      [GoodDoc EXCEPT !.body = NullLen],
      [GoodDoc EXCEPT !.meta = FALSE, !.slug = FALSE, !.title = FALSE,
                      !.description = FALSE],
      [GoodDoc EXCEPT !.description = FALSE],
      EmptyDoc }

\* validate_writer_output: the body of the first section, "" without sections.
first_body(d) == IF d.sections > 0 THEN d.body ELSE 0

\* The validator raises (outside its try block) when the body is not a string.
validate_raises(d) == d.kind = "dict" /\ first_body(d) = NullLen

validate_issues(d) ==
    IF d.kind # "dict" THEN {"error"}
    ELSE (IF d.headline < HEADLINE_MIN THEN {"headline"} ELSE {})
         \cup (IF d.sections = 0 THEN {"sections"} ELSE {})
         \cup (IF first_body(d) < BODY_MIN THEN {"first_section_body"} ELSE {})
         \cup (IF ~d.slug THEN {"slug"} ELSE {})
         \cup (IF ~d.title THEN {"title"} ELSE {})
         \cup (IF ~d.description THEN {"description"} ELSE {})

validate_writer_output(d) ==
    [raised |-> validate_raises(d),
     valid  |-> ~validate_raises(d) /\ validate_issues(d) = {},
     issues |-> validate_issues(d)]

validate_page_output(d) == validate_writer_output(d)

IsValid(d) == validate_writer_output(d).valid

\* build_fallback_draft ends after building `hero`: it returns None.
build_fallback_draft(case) == NoneDraft

\* call_writer: fills the empty skeletons and records the warnings.
call_writer(r) ==
    [r EXCEPT !.content = TRUE, !.meta = TRUE,
              !.warnings = (IF r.content THEN <<>> ELSE <<"content missing">>)
                           \o (IF r.meta THEN <<>> ELSE <<"meta missing">>)]

\* The replies of one Writer call: an object, a non-object, or an exception
\* raised by call_llm_json (no API key, empty or unparsable body).
RaiseReply == [EmptyDoc EXCEPT !.kind = "raise"]
WriterReplies == DraftReplies \cup {ListDraft, RaiseReply}
FixerReplies == DraftReplies \cup {ListDraft, RaiseReply, [GoodDoc EXCEPT !.err = TRUE]}

\* call_fixer: an exception of the gateway and a non-object both become the
\* error marker {"_error": ...}.
call_fixer(r) == IF r.kind # "dict" THEN ErrorMarker ELSE r

\* ------------------------------------------------------------------ reviews
\* approved: "true" | "false" | "null" | "absent" (the JSON value of the key).
\* legal: the score times 100, LegalAbsent when scores.legal is missing,
\* LegalBad when float() cannot parse it.  fix: "absent" | "empty" | "some".
LegalAbsent == 0 - 1
LegalBad == 0 - 2
ApprovedVals == {"true", "false", "null", "absent"}
MissingNote == "missing approved flag"
LenientNote == "lenient test pass"

\* raw: the approved key as the reply had it, kept beside the value that
\* call_reviewer may put in its place.
ReviewRec(k, ap, lg, hr, fx) ==
    [kind |-> k, approved |-> ap, raw |-> ap, legal |-> lg, hasReasons |-> hr,
     reasons |-> (IF hr THEN <<"llm">> ELSE <<>>), fix |-> fx]

NoReview == ReviewRec("none", "absent", LegalAbsent, FALSE, "absent")
RaiseReview == ReviewRec("raise", "absent", LegalAbsent, FALSE, "absent")
ListReview == ReviewRec("list", "absent", LegalAbsent, FALSE, "absent")

ReviewerReplies ==
    { ReviewRec("dict", "true", LENIENT_LEGAL, TRUE, "empty"),
      ReviewRec("dict", "false", LENIENT_LEGAL - 1, TRUE, "some"),
      ReviewRec("dict", "false", LENIENT_LEGAL, FALSE, "some"),
      ReviewRec("dict", "null", LegalBad, TRUE, "some"),
      ReviewRec("dict", "absent", LENIENT_LEGAL, TRUE, "some"),
      ReviewRec("dict", "absent", LegalAbsent, FALSE, "some"),
      RaiseReview, ListReview }

GateReplies ==
    { ReviewRec("dict", ap, LegalAbsent, TRUE, fx) :
        ap \in ApprovedVals, fx \in {"absent", "empty", "some"} }
    \cup {RaiseReview, ListReview}

\* bool(review.get("approved", False))
PyBool(v) == v = "true"

\* call_reviewer raises for a reply that is not an object.
reviewer_raises(r) == r.kind # "dict"

\* call_reviewer: a missing approved flag becomes False, and the hint is
\* stored with setdefault, that is only when the reply has no reasons.
call_reviewer(r) ==
    IF r.approved = "absent"
    THEN [r EXCEPT !.approved = "false",
                   !.hasReasons = TRUE,
                   !.reasons = (IF r.hasReasons THEN r.reasons ELSE <<MissingNote>>)]
    ELSE r

\* Variant of final_gate_raises: a reply without approved is taken as it is.
final_gate_raises_non_object(r) == r.kind # "dict"

\* call_final_gate raises for a non-object and for a missing approved flag.
final_gate_raises(r) == r.kind # "dict" \/ r.approved = "absent"

\* float(review.get("scores", {}).get("legal", 0.0)), 0.0 on any exception.
legal_score(rv) == IF rv.legal < 0 THEN 0 ELSE rv.legal

\* Variant of lenient_applies: the legal score must exceed the threshold.
lenient_applies_above(tl, ap, rv, round_idx) ==
    tl /\ ~ap /\ legal_score(rv) > LENIENT_LEGAL /\ round_idx >= 1

lenient_applies_any_mode(tl, ap, rv, round_idx) ==
    ~ap /\ legal_score(rv) >= LENIENT_LEGAL /\ round_idx >= 1

\* The lenient rule of the loop (round_idx = rounds + 1).
lenient_applies(tl, ap, rv, round_idx) ==
    tl /\ ~ap /\ legal_score(rv) >= LENIENT_LEGAL /\ round_idx >= 1

lenient_review(rv) ==
    [rv EXCEPT !.hasReasons = TRUE, !.reasons = rv.reasons \o <<LenientNote>>]

\* Variant of loop_continues: an off-by-one round cap.
loop_continues_le(ap, rd) == ~ap /\ rd <= MAX_ROUNDS

\* while not approved and rounds < MAX_ROUNDS
loop_continues(ap, rd) == ~ap /\ rd < MAX_ROUNDS

\* Variant of gate_called: the Final Gate is called after every loop.
gate_called_always(ap) == TRUE

\* if approved: (the branch that calls call_final_gate)
gate_called(ap) == ap

\* Variant of failed_rounds: the aborted round is not counted.
failed_rounds_uncounted(rd) == rd

\* "rounds": round_idx in the fixer_failed result, round_idx = rounds + 1
failed_rounds(rd) == rd + 1

\* The status of a run whose loop ended without approval: the default
\* "blocked_by_loop" is overwritten by the else branch of `if approved`.
loop_exit_status == "blocked_by_final_gate"

\* Variant of fix_valid: the Fixer's draft is adopted without validation.
fix_valid_unchecked(fr) == ~fr.err

\* The Fixer's draft of a loop round is adopted only without "_error" and
\* when it passes validate_page_output.
fix_valid(fr) == ~fr.err /\ validate_page_output(fr).valid

\* Variant of gate_status: only an explicit false blocks.
gate_status_not_false(fg) ==
    IF fg.approved # "false" THEN "approved_for_publish" ELSE "blocked_by_final_gate"

\* The status after the Final Gate, from its approved flag.
gate_status(fg) ==
    IF PyBool(fg.approved) THEN "approved_for_publish" ELSE "blocked_by_final_gate"

\* fix_suggestions = final_gate_review.get("fix_suggestions") or []
\* Variant of has_fix_suggestions: an empty list counts as suggestions.
has_fix_suggestions_or_empty(fg) == fg.fix \in {"some", "empty"}

has_fix_suggestions(fg) == fg.fix = "some"

\* Variant of post_gate_draft: the post-gate draft is adopted without validation.
post_gate_draft_unchecked(ff, safe) == IF ~ff.err THEN ff ELSE safe

\* The draft kept after the post-gate Fixer pass; an exception of the
\* validator is caught and keeps safe_draft as well.
post_gate_draft(ff, safe) ==
    IF ~ff.err /\ ~validate_raises(ff) /\ validate_page_output(ff).valid
    THEN ff ELSE safe

\* -------------------------------------------------------------------- state
VARIABLES
    store,              \* cases.jsonl: the persisted case records, in file order
    cases,              \* run_all_cases: the collection loaded in memory
    dpc,                \* run_all_cases: "idle" | "loop" | "pipeline" | "returned" | "crashed";
                        \* "single" when run_page_pipeline is called directly
    idx,                \* run_all_cases: position of the for loop in cases
    processed,          \* run_all_cases: processed
    max_cases_per_run,  \* run_all_cases: argument
    test_lenient,       \* run_all_cases: argument, passed on to the pipeline
    results,            \* run_all_cases: results (status, gate verdict, deploy)
    deployed,           \* positions run_html_and_deploy was called for, this run
    before_fail_count,  \* run_all_cases: before_fail_count
    fail_log,           \* number of entries of deploy_failures.jsonl
    runs,               \* number of invocations of run_all_cases so far
    ppc,                \* run_page_pipeline: position
    draft,              \* run_page_pipeline: draft
    review,             \* run_page_pipeline: review
    approved,           \* run_page_pipeline: approved
    rounds,             \* run_page_pipeline: rounds
    final_gate_review,  \* run_page_pipeline: final_gate_review
    safe_draft,         \* run_page_pipeline: safe_draft
    final_fix,          \* run_page_pipeline: final_fix
    result,             \* run_page_pipeline: the returned dict
    cnt,                \* calls made in this execution, per role
    wvalid,             \* validity of each Writer attempt of this execution
    exc,                \* the exception that left run_page_pipeline, if one did
    procs,              \* invocations of run_all_cases taken as whole steps:
                        \* for each, its position and its locals
    rt,                 \* a collection given to save_cases, the text of the
                        \* file written, and what load_cases reads back
    pages,              \* pages.json, the clock, and the last call of
                        \* update_pages_json with the file it found
    gen,                \* the last call of a keyword/case generator: the LLM
                        \* responses it received and what it returned
    validation,         \* a draft given to the Draft Validator directly, the
                        \* function called and what it gave
    appended            \* the last call of append_new_cases_from_seeds: the
                        \* cases it loaded, those it generated, how it ended

dvars == <<store, cases, dpc, idx, processed, max_cases_per_run, test_lenient,
           results, deployed, before_fail_count, fail_log, runs, procs, rt,
           pages, gen, validation, appended>>
pvars == <<ppc, draft, review, approved, rounds, final_gate_review, safe_draft,
           final_fix, result, cnt, wvalid, exc>>
vars == <<store, cases, dpc, idx, processed, max_cases_per_run, test_lenient,
          results, deployed, before_fail_count, fail_log, runs,
          ppc, draft, review, approved, rounds, final_gate_review, safe_draft,
          final_fix, result, cnt, wvalid, exc, procs, rt, pages, gen, validation,
          appended>>

CaseRec(id, st) ==
    [case_id |-> id, status |-> st, created_at |-> "created", last_run_at |-> "none",
     deploy |-> "absent"]

NoCalls == [writer |-> 0, reviewer |-> 0, fixer |-> 0, gate |-> 0, gatefix |-> 0,
            retry_reason |-> 0]

\* The user content of the Writer's calls: call_writer sends the case and the
\* response schema, the retry adds a retry_reason.
writer_payload == [case |-> TRUE, response_schema |-> TRUE, retry_reason |-> FALSE]
retry_payload == [case |-> TRUE, response_schema |-> TRUE, retry_reason |-> TRUE]

\* One more Writer call, counted with what its payload carried.
WriterCalled(c, payload) ==
    [c EXCEPT !.writer = @ + 1,
              !.retry_reason = @ + (IF payload.retry_reason THEN 1 ELSE 0)]

NoResult ==
    [case |-> 0, draft |-> NoneDraft, review |-> NoReview, final_gate |-> NoReview,
     rounds |-> 0, approved |-> FALSE, status |-> "none", issues |-> {}]

Range(q) == { q[i] : i \in 1..Len(q) }

\* No file is being written and read back.
NoRt == [pc |-> "idle", given |-> <<>>, text |-> <<>>,
         loaded |-> [ok |-> TRUE, cases |-> <<>>]]

\* pages.json does not exist and update_pages_json has not been called.
NoPages == [pc |-> "idle", kind |-> "missing", file |-> <<>>, now |-> 0,
            found |-> <<>>, arg |-> <<>>]

\* append_new_cases_from_seeds has not been called.
NoAppend == [pc |-> "idle", existing |-> <<>>, new_cases |-> <<>>]

\* No draft has been given to the validator directly.
NoValidation == [pc |-> "idle", fn |-> "none", draft |-> NoneDraft,
                 valid |-> FALSE, issues |-> {}]

\* No generator has been called.
NoGen == [pc |-> "idle", fn |-> "none", replies |-> <<>>, result |-> <<>>,
          max_keywords |-> 0]

\* No invocation is being followed as whole steps.
NoProcs == <<>>

\* The number of the next gateway call of this execution; it stamps the reply.
NextVer == cnt.writer + cnt.reviewer + cnt.fixer + cnt.gate + cnt.gatefix + 1

Stamp(d) == [d EXCEPT !.ver = NextVer]

TerminalStatuses ==
    {"approved_for_publish", "blocked_by_loop", "blocked_by_final_gate",
     "writer_hard_fail", "fixer_failed"}

\* A line of cases.jsonl: blank, or the JSON text of one case object.
json_dumps(c) == [blank |-> FALSE, obj |-> c]
json_loads(line) == line.obj
NonBlank(line) == ~line.blank

\* load_cases: the objects of the non-blank lines, in file order.
load_cases(file) ==
    LET ls == SelectSeq(file, NonBlank)
    IN  [i \in 1..Len(ls) |-> json_loads(ls[i])]

\* save_cases: rewrites the file, one line per case.
save_cases(cs) == [i \in 1..Len(cs) |-> json_dumps(cs[i])]

\* cases.jsonl before the first invocation: NumCases records that no run
\* has touched, the first without a status, the others with status todo.
InitStore ==
    [i \in 1..NumCases |-> json_dumps(CaseRec(i, IF i = 1 THEN "none" ELSE "todo"))]

Init ==
    /\ store = InitStore
    /\ cases = <<>>
    /\ dpc = "idle"
    /\ idx = 0
    /\ processed = 0
    /\ max_cases_per_run = 0
    /\ test_lenient = FALSE
    /\ results = <<>>
    /\ deployed = <<>>
    /\ before_fail_count = 0
    /\ fail_log = 0
    /\ runs = 0
    /\ ppc = "idle"
    /\ draft = NoneDraft
    /\ review = NoReview
    /\ approved = FALSE
    /\ rounds = 0
    /\ final_gate_review = NoReview
    /\ safe_draft = NoneDraft
    /\ final_fix = NoneDraft
    /\ result = NoResult
    /\ cnt = NoCalls
    /\ wvalid = <<>>
    /\ exc = "none"
    /\ procs = NoProcs
    /\ rt = NoRt
    /\ pages = NoPages
    /\ gen = NoGen
    /\ validation = NoValidation
    /\ appended = NoAppend

\* ------------------------------------------------- run_page_pipeline: steps
PipeLocalsIdle ==
    /\ draft' = NoneDraft
    /\ review' = NoReview
    /\ approved' = FALSE
    /\ rounds' = 0
    /\ final_gate_review' = NoReview
    /\ safe_draft' = NoneDraft
    /\ final_fix' = NoneDraft
    /\ result' = NoResult
    /\ cnt' = NoCalls
    /\ wvalid' = <<>>
    /\ exc' = "none"

\* The exception e leaves run_page_pipeline: no result is returned.
Raise(e) == ppc' = "raised" /\ result' = NoResult /\ exc' = e

\* The execution goes on at step p.
Goto(p) == ppc' = p /\ result' = NoResult /\ exc' = "none"

\* return result
Return(d, rv, fg, rd, ap, st, iss) ==
    /\ ppc' = "done"
    /\ exc' = "none"
    /\ result' = [case |-> idx, draft |-> d, review |-> rv, final_gate |-> fg,
                  rounds |-> rd, approved |-> ap, status |-> st, issues |-> iss]

\* After a review: the while test, then the code after the loop.
AfterReview(d, rv, ap, rd) ==
    IF loop_continues(ap, rd) THEN Goto("fixer")
    ELSE IF gate_called(ap) THEN Goto("gate")
    ELSE Return(d, rv, NoReview, rd, ap, loop_exit_status, {})

\* call_reviewer(draft, mode="initial"), approved, rounds = 0, the while test.
ToInitialReview == Goto("review0")

\* Writer, first attempt: call_writer, validate_writer_output.
WriterFirst ==
    /\ ppc = "writer1"
    /\ \E r \in WriterReplies :
          LET d == Stamp(call_writer(r))
              v == validate_writer_output(d)
          IN  /\ cnt' = WriterCalled(cnt, writer_payload)
              /\ IF r.kind # "dict" \/ v.raised
                 THEN Raise(IF r.kind # "dict" THEN "call_writer" ELSE "validator")
                      /\ UNCHANGED <<draft, wvalid>>
                 ELSE /\ draft' = d
                      /\ wvalid' = Append(wvalid, v.valid)
                      /\ IF v.valid THEN ToInitialReview
                         ELSE Goto("writer2")
    /\ UNCHANGED <<review, approved, rounds, final_gate_review, safe_draft, final_fix>>
    /\ UNCHANGED dvars

\* Writer, retry: call_llm_json directly, validate, and when still invalid
\* the fallback draft, its validation, draft.setdefault and the hard failure.
WriterRetry ==
    /\ ppc = "writer2"
    /\ \E r \in WriterReplies :
          LET d == Stamp(r)
              v == validate_writer_output(d)
              fb == build_fallback_draft(cases[idx])
              fv == validate_writer_output(fb)
              fbw == [fb EXCEPT !.warnings = @ \o <<"writer fallback used">>]
          IN  /\ cnt' = WriterCalled(cnt, retry_payload)
              /\ IF r.kind = "raise" \/ v.raised
                 THEN Raise(IF r.kind = "raise" THEN "call_llm_json" ELSE "validator")
                      /\ UNCHANGED <<draft, wvalid>>
                 ELSE /\ wvalid' = Append(wvalid, v.valid)
                      /\ IF v.valid THEN draft' = d /\ ToInitialReview
                         ELSE IF fb.kind # "dict" \/ fv.raised
                         THEN draft' = fb /\ Raise("fallback")
                         ELSE /\ draft' = fbw
                              /\ IF fv.valid THEN ToInitialReview
                                 ELSE Return(fbw, NoReview, NoReview, 0, FALSE,
                                             "writer_hard_fail", fv.issues)
    /\ UNCHANGED <<review, approved, rounds, final_gate_review, safe_draft, final_fix>>
    /\ UNCHANGED dvars

\* review = call_reviewer(draft, mode="initial")
InitialReview ==
    /\ ppc = "review0"
    /\ \E r \in ReviewerReplies :
          LET rv == call_reviewer(r)
              ap == PyBool(rv.approved)
          IN  /\ cnt' = [cnt EXCEPT !.reviewer = @ + 1]
              /\ IF reviewer_raises(r)
                 THEN Raise("call_reviewer") /\ UNCHANGED <<review, approved, rounds>>
                 ELSE /\ review' = rv
                      /\ approved' = ap
                      /\ rounds' = 0
                      /\ AfterReview(draft, rv, ap, 0)
    /\ UNCHANGED <<draft, final_gate_review, safe_draft, final_fix, wvalid>>
    /\ UNCHANGED dvars

\* One round of the loop up to the Fixer's result: call_fixer, validation,
\* and the fixer_failed return.
LoopFixer ==
    /\ ppc = "fixer"
    /\ \E r \in FixerReplies :
          LET round_idx == rounds + 1
              fr == Stamp(call_fixer(r))
          IN  /\ cnt' = [cnt EXCEPT !.fixer = @ + 1]
              /\ IF ~fr.err /\ validate_raises(fr)
                 THEN Raise("validator") /\ UNCHANGED draft
                 ELSE IF ~fix_valid(fr)
                 THEN /\ Return(draft, review, NoReview, failed_rounds(rounds), FALSE,
                                "fixer_failed",
                                IF fr.err THEN {"_error"} ELSE validate_page_output(fr).issues)
                      /\ UNCHANGED draft
                 ELSE /\ draft' = fr
                      /\ Goto("review")
    /\ UNCHANGED <<review, approved, rounds, final_gate_review, safe_draft, final_fix, wvalid>>
    /\ UNCHANGED dvars

\* The rest of the round: call_reviewer(draft, mode="final"), the lenient
\* rule, rounds += 1, the while test.
LoopReview ==
    /\ ppc = "review"
    /\ \E r \in ReviewerReplies :
          LET round_idx == rounds + 1
              rv == call_reviewer(r)
              ap == PyBool(rv.approved)
              len == lenient_applies(test_lenient, ap, rv, round_idx)
              rv2 == IF len THEN lenient_review(rv) ELSE rv
              ap2 == ap \/ len
          IN  /\ cnt' = [cnt EXCEPT !.reviewer = @ + 1]
              /\ IF reviewer_raises(r)
                 THEN Raise("call_reviewer") /\ UNCHANGED <<review, approved, rounds>>
                 ELSE /\ review' = rv2
                      /\ approved' = ap2
                      /\ rounds' = rounds + 1
                      /\ AfterReview(draft, rv2, ap2, rounds + 1)
    /\ UNCHANGED <<draft, final_gate_review, safe_draft, final_fix, wvalid>>
    /\ UNCHANGED dvars

\* final_gate_review = call_final_gate(draft) and the branch on its verdict.
FinalGate ==
    /\ ppc = "gate"
    /\ \E r \in GateReplies :
          /\ cnt' = [cnt EXCEPT !.gate = @ + 1]
          /\ IF final_gate_raises(r)
             THEN Raise(IF r.kind = "dict" THEN "final_gate_no_approved"
                        ELSE "call_final_gate")
                  /\ UNCHANGED <<final_gate_review, safe_draft>>
             ELSE /\ final_gate_review' = r
                  /\ safe_draft' = draft
                  /\ IF gate_status(r) = "approved_for_publish" /\ has_fix_suggestions(r)
                     THEN Goto("gatefix")
                     ELSE Return(draft, review, r, rounds, approved, gate_status(r), {})
    /\ UNCHANGED <<draft, review, approved, rounds, final_fix, wvalid>>
    /\ UNCHANGED dvars

\* The single Fixer pass after an approving gate with fix_suggestions.
GateFixer ==
    /\ ppc = "gatefix"
    /\ \E r \in FixerReplies :
          LET ff == Stamp(call_fixer(r))
              d == post_gate_draft(ff, safe_draft)
          IN  /\ cnt' = [cnt EXCEPT !.gatefix = @ + 1]
              /\ final_fix' = ff
              /\ draft' = d
              /\ Return(d, review, final_gate_review, rounds, approved,
                        "approved_for_publish", {})
    /\ UNCHANGED <<review, approved, rounds, final_gate_review, safe_draft, wvalid>>
    /\ UNCHANGED dvars

\* ----------------------------------------------------- run_all_cases: steps
\* Variant of should_deploy: every page that was written is published.
should_deploy_any_draft(status) == status # "writer_hard_fail"

\* Variant of should_deploy: everything the gate has seen is published.
should_deploy_gate_seen(status) ==
    status \in {"approved_for_publish", "blocked_by_final_gate"}

\* if status == "approved_for_publish": run_html_and_deploy(...)
should_deploy(status) == status = "approved_for_publish"

\* Variant of is_pending: a case whose Fixer failed is taken up again.
is_pending_or_fixer_failed(c) == c.status \in {"none", "todo", "fixer_failed"}

\* case.get("status") not in (None, "todo"): the case is skipped.
is_pending(c) == c.status \in {"none", "todo"}

\* Variant of file_after_save: a record the file shows as settled is kept.
file_after_save_keeping_settled(old, cs) ==
    [i \in 1..Len(cs) |->
        IF i <= Len(old) /\ ~old[i].blank /\ ~is_pending(json_loads(old[i]))
        THEN old[i] ELSE json_dumps(cs[i])]

\* save_cases opens the path with mode "w": what the file held is gone.
file_after_save(old, cs) == save_cases(cs)

\* pipeline_result.get("last_run_at") or pipeline_result.get("timestamp") or None:
\* the result of run_page_pipeline has neither key.
last_run_at_of(res) == "none"

\* What results keeps of pipeline_result["final_gate"]: None, or its verdict.
gate_verdict(fg) ==
    IF fg.kind = "none" THEN "none"
    ELSE IF PyBool(fg.approved) THEN "approved" ELSE "rejected"

\* The statuses run_html_and_deploy returns.
DeployOutcomes == {"success", "failed"}

\* The steps inside the try block of run_html_and_deploy, in order.
\* deploy_stub always answers True, so the `raise RuntimeError(message)`
\* after it never happens.
DeployStages ==
    <<"render_html", "save_html", "update_pages_json", "build_sitemap",
      "copy_static_files_to_public", "git_commit_and_push">>

\* Where a publish attempt breaks: at one of the steps, or nowhere.
DeployFaults == Range(DeployStages) \cup {"none"}

\* Variant of run_html_and_deploy: git_commit_and_push is called outside
\* what the handler logs.
run_html_and_deploy_git_unlogged(fault) ==
    IF fault = "none" THEN [status |-> "success", logged |-> 0]
    ELSE [status |-> "failed", logged |-> IF fault = "git_commit_and_push" THEN 0 ELSE 1]

\* run_html_and_deploy: the step that raises, if any, is inside the try
\* block; the handler appends one entry to deploy_failures.jsonl and
\* returns the failed result.
run_html_and_deploy(fault) ==
    IF fault = "none" THEN [status |-> "success", logged |-> 0]
    ELSE [status |-> "failed", logged |-> 1]

\* max_cases_per_run: the default, and 1 (one case per run, as a cron job
\* that publishes one page at a time).
MaxCasesChoices == {1, DEFAULT_MAX_CASES}

\* The invocation is over: its arguments and locals are gone.
ArgsGone ==
    /\ cases' = <<>>
    /\ results' = <<>>
    /\ deployed' = <<>>
    /\ idx' = 0
    /\ processed' = 0
    /\ max_cases_per_run' = 0
    /\ test_lenient' = FALSE
    /\ before_fail_count' = 0

\* run_all_cases is called: load_cases, the counters.
Invoke ==
    /\ dpc \in {"idle", "returned", "crashed"}
    /\ runs < MaxRuns
    /\ runs' = runs + 1
    /\ \E tl \in BOOLEAN, m \in MaxCasesChoices :
          /\ test_lenient' = tl
          /\ max_cases_per_run' = m
    /\ cases' = load_cases(store)
    /\ results' = <<>>
    /\ deployed' = <<>>
    /\ before_fail_count' = fail_log
    /\ processed' = 0
    /\ idx' = 1
    /\ dpc' = "loop"
    /\ UNCHANGED <<store, fail_log>>
    /\ UNCHANGED pvars
    /\ UNCHANGED <<procs, rt, pages, gen, validation, appended>>

\* for case in cases: a case that is not pending is skipped (continue).
SkipCase ==
    /\ dpc = "loop"
    /\ idx <= Len(cases)
    /\ processed < max_cases_per_run
    /\ ~is_pending(cases[idx])
    /\ idx' = idx + 1
    /\ UNCHANGED <<store, cases, dpc, processed, max_cases_per_run, test_lenient,
                   results, deployed, before_fail_count, fail_log, runs>>
    /\ UNCHANGED pvars
    /\ UNCHANGED <<procs, rt, pages, gen, validation, appended>>

\* for case in cases: run_page_pipeline(case, test_lenient=test_lenient) starts.
StartCase ==
    /\ dpc = "loop"
    /\ idx <= Len(cases)
    /\ processed < max_cases_per_run
    /\ is_pending(cases[idx])
    /\ dpc' = "pipeline"
    /\ ppc' = "writer1"
    /\ UNCHANGED <<store, cases, idx, processed, max_cases_per_run, test_lenient,
                   results, deployed, before_fail_count, fail_log, runs>>
    /\ UNCHANGED <<draft, review, approved, rounds, final_gate_review, safe_draft,
                   final_fix, result, cnt, wvalid, exc>>
    /\ UNCHANGED <<procs, rt, pages, gen, validation, appended>>

\* The pipeline returned: status and last_run_at of the case, the publish
\* step for an approved result, results.append, processed += 1.
HandleResult ==
    /\ dpc = "pipeline"
    /\ ppc = "done"
    /\ \E fault \in IF should_deploy(result.status) THEN DeployFaults ELSE {"none"} :
          LET status == result.status
              out == run_html_and_deploy(fault)
              dep == IF should_deploy(status) THEN out.status ELSE "none"
          IN  /\ cases' = [cases EXCEPT ![idx].status = status,
                                        ![idx].last_run_at = last_run_at_of(result),
                                        ![idx].deploy = dep]
              /\ deployed' = IF should_deploy(status) THEN Append(deployed, idx) ELSE deployed
              /\ fail_log' = IF should_deploy(status) THEN fail_log + out.logged ELSE fail_log
              /\ results' = Append(results,
                                   [case |-> idx, status |-> status,
                                    gate |-> gate_verdict(result.final_gate),
                                    deploy |-> dep])
    /\ processed' = processed + 1
    /\ idx' = idx + 1
    /\ dpc' = "loop"
    /\ ppc' = "idle"
    /\ PipeLocalsIdle
    /\ UNCHANGED <<store, max_cases_per_run, test_lenient, before_fail_count, runs>>
    /\ UNCHANGED <<procs, rt, pages, gen, validation, appended>>

\* The pipeline raised: run_all_cases has no handler, the exception leaves it
\* before save_cases.
Propagate ==
    /\ dpc = "pipeline"
    /\ ppc = "raised"
    /\ dpc' = "crashed"
    /\ ppc' = "idle"
    /\ PipeLocalsIdle
    /\ ArgsGone
    /\ UNCHANGED <<store, fail_log, runs>>
    /\ UNCHANGED <<procs, rt, pages, gen, validation, appended>>

\* The loop is over (end of the list, or break): save_cases(cases), return.
\* The `if after_fail_count > before_fail_count:` before it has no statement
\* in its body (only comments): it is taken as a no-op, and after_fail_count,
\* which nothing else reads, is left out.
Finish ==
    /\ dpc = "loop"
    /\ (idx > Len(cases) \/ processed >= max_cases_per_run)
    /\ store' = file_after_save(store, cases)
    /\ dpc' = "returned"
    /\ ArgsGone
    /\ UNCHANGED <<fail_log, runs>>
    /\ UNCHANGED pvars
    /\ UNCHANGED <<procs, rt, pages, gen, validation, appended>>

Next ==
    \/ Invoke
    \/ SkipCase
    \/ StartCase
    \/ WriterFirst
    \/ WriterRetry
    \/ InitialReview
    \/ LoopFixer
    \/ LoopReview
    \/ FinalGate
    \/ GateFixer
    \/ HandleResult
    \/ Propagate
    \/ Finish

Spec == Init /\ [][Next]_vars

\* ------------------------------------------- run_single_case: one execution
\* run_page_pipeline called directly on one case, as run_single_case.main
\* does; the argument test_lenient is either value.
PipelineInit ==
    /\ store = <<>>
    /\ cases = <<CaseRec(1, "none")>>
    /\ dpc = "single"
    /\ idx = 1
    /\ processed = 0
    /\ max_cases_per_run = 0
    /\ test_lenient \in BOOLEAN
    /\ results = <<>>
    /\ deployed = <<>>
    /\ before_fail_count = 0
    /\ fail_log = 0
    /\ runs = 0
    /\ ppc = "writer1"
    /\ draft = NoneDraft
    /\ review = NoReview
    /\ approved = FALSE
    /\ rounds = 0
    /\ final_gate_review = NoReview
    /\ safe_draft = NoneDraft
    /\ final_fix = NoneDraft
    /\ result = NoResult
    /\ cnt = NoCalls
    /\ wvalid = <<>>
    /\ exc = "none"
    /\ procs = NoProcs
    /\ rt = NoRt
    /\ pages = NoPages
    /\ gen = NoGen
    /\ validation = NoValidation
    /\ appended = NoAppend

PipelineNext ==
    \/ WriterFirst
    \/ WriterRetry
    \/ InitialReview
    \/ LoopFixer
    \/ LoopReview
    \/ FinalGate
    \/ GateFixer

PipelineSpec == PipelineInit /\ [][PipelineNext]_vars

\* ------------------------------------------------------------------- typing
\* ------------------------------------ run_all_cases followed as whole steps
\* What follows looks at the Case Store only, so an invocation of
\* run_all_cases is followed in the steps that touch the store or a case
\* record: the call (load_cases), each turn of the for loop, and the end
\* (save_cases). A turn that runs a case takes run_page_pipeline and the
\* publish step as one step: nothing in them reads or writes cases.jsonl.

\* The statuses run_page_pipeline returns, as found for the steps above
\* (writer_hard_fail and blocked_by_loop are never returned).
PipelineReturns == {"approved_for_publish", "blocked_by_final_gate", "fixer_failed"}

\* One execution of run_page_pipeline: a returned status, or an exception.
PipelineOutcomes == PipelineReturns \cup {"raised"}

\* ran: the positions for which run_page_pipeline has returned a status, over
\* all the calls made in this place so far.
IdleProc ==
    [pc |-> "idle", cases |-> <<>>, idx |-> 0, processed |-> 0, max |-> 0,
     deployed |-> <<>>, ran |-> <<>>, published |-> <<>>]

\* Everything that belongs to the step-by-step driver and pipeline is at rest.
Quiet ==
    /\ cases = <<>>
    /\ dpc = "idle"
    /\ idx = 0
    /\ processed = 0
    /\ max_cases_per_run = 0
    /\ test_lenient = FALSE
    /\ results = <<>>
    /\ deployed = <<>>
    /\ before_fail_count = 0
    /\ ppc = "idle"
    /\ draft = NoneDraft
    /\ review = NoReview
    /\ approved = FALSE
    /\ rounds = 0
    /\ final_gate_review = NoReview
    /\ safe_draft = NoneDraft
    /\ final_fix = NoneDraft
    /\ result = NoResult
    /\ cnt = NoCalls
    /\ wvalid = <<>>
    /\ exc = "none"
    /\ rt = NoRt
    /\ pages = NoPages
    /\ gen = NoGen
    /\ validation = NoValidation
    /\ appended = NoAppend

svars == <<cases, dpc, idx, processed, max_cases_per_run, test_lenient, results,
           deployed, before_fail_count, ppc, draft, review, approved, rounds,
           final_gate_review, safe_draft, final_fix, result, cnt, wvalid, exc, rt,
           pages, gen, validation>>

qvars == <<svars, appended>>

\* Invocation p of run_all_cases is called: cases = list(load_cases()).
CallRunAll(p) ==
    /\ procs[p].pc \in {"idle", "returned", "crashed"}
    /\ runs < MaxRuns
    /\ runs' = runs + 1
    /\ \E m \in MaxCasesChoices :
          procs' = [procs EXCEPT ![p] = [pc |-> "loop", cases |-> load_cases(store),
                                         idx |-> 1, processed |-> 0, max |-> m,
                                         deployed |-> <<>>, ran |-> procs[p].ran,
                                         published |-> procs[p].published]]
    /\ UNCHANGED <<store, fail_log>>
    /\ UNCHANGED qvars

\* A turn of the loop of invocation p on a case that is not pending.
PassCase(p) ==
    /\ procs[p].pc = "loop"
    /\ procs[p].idx <= Len(procs[p].cases)
    /\ procs[p].processed < procs[p].max
    /\ ~is_pending(procs[p].cases[procs[p].idx])
    /\ procs' = [procs EXCEPT ![p].idx = @ + 1]
    /\ UNCHANGED <<store, fail_log, runs>>
    /\ UNCHANGED qvars

\* A turn of the loop of invocation p on a pending case: the pipeline, the
\* record's status, last_run_at and deploy, the publish step. An exception
\* of the pipeline ends the invocation before save_cases.
RunCase(p) ==
    /\ procs[p].pc = "loop"
    /\ procs[p].idx <= Len(procs[p].cases)
    /\ procs[p].processed < procs[p].max
    /\ is_pending(procs[p].cases[procs[p].idx])
    /\ \E status \in PipelineOutcomes :
        \E fault \in IF should_deploy(status) THEN DeployFaults ELSE {"none"} :
          LET i == procs[p].idx
              out == run_html_and_deploy(fault)
              dep == IF should_deploy(status) THEN out.status ELSE "none"
          IN  IF status = "raised"
              THEN /\ procs' = [procs EXCEPT ![p].pc = "crashed"]
                   /\ UNCHANGED fail_log
              ELSE /\ procs' = [procs EXCEPT
                                  ![p].cases[i].status = status,
                                  ![p].cases[i].last_run_at = "none",
                                  ![p].cases[i].deploy = dep,
                                  ![p].deployed = IF should_deploy(status)
                                                  THEN Append(@, i) ELSE @,
                                  ![p].ran = Append(@, i),
                                  ![p].published = IF should_deploy(status)
                                                   THEN Append(@, [pos |-> i, status |-> dep,
                                                                   case_id |-> procs[p].cases[i].case_id])
                                                   ELSE @,
                                  ![p].processed = @ + 1,
                                  ![p].idx = @ + 1]
                   /\ fail_log' = IF should_deploy(status) THEN fail_log + out.logged
                                  ELSE fail_log
    /\ UNCHANGED <<store, runs>>
    /\ UNCHANGED qvars

\* The loop of invocation p is over: save_cases(cases), return results.
SaveAndReturn(p) ==
    /\ procs[p].pc = "loop"
    /\ (procs[p].idx > Len(procs[p].cases) \/ procs[p].processed >= procs[p].max)
    /\ store' = file_after_save(store, procs[p].cases)
    /\ procs' = [procs EXCEPT ![p].pc = "returned"]
    /\ UNCHANGED <<fail_log, runs>>
    /\ UNCHANGED qvars

\* ------------------------------------------- two overlapping invocations
\* Two invocations of run_all_cases on the same cases.jsonl (two cron jobs,
\* or a cron job and a manual run): each may take any of its steps at any
\* time. Nothing in the code locks the file.
Invocations == {1, 2}

ConcInit ==
    /\ store = InitStore
    /\ procs = [p \in Invocations |-> IdleProc]
    /\ fail_log = 0
    /\ runs = 0
    /\ Quiet

\* Each of the two is called once.
ConcNext ==
    \E p \in DOMAIN procs :
        \/ procs[p].pc = "idle" /\ CallRunAll(p)
        \/ PassCase(p)
        \/ RunCase(p)
        \/ SaveAndReturn(p)

ConcSpec == ConcInit /\ [][ConcNext]_vars

\* ---------------------------------- the Case Store over a sequence of runs
\* append_new_cases_from_seeds and run_all_cases called one after the other,
\* in any order, never two at a time (run_full_cycle, or the two scripts).

\* The file is followed while it holds at most MaxStored records.
MaxStored == 3

\* What the case generator's model can answer for one case: a case_id that
\* is new or that a stored case already has, and one of three shapes: without
\* status, created_at and last_run_at; with them as the prompt asks
\* (status todo, a created_at, last_run_at null); or with a status and a
\* last_run_at of its own and a null created_at.
ItemShapes ==
    { [status |-> "absent", created_at |-> "absent", last_run_at |-> "absent"],
      [status |-> "todo", created_at |-> "llm time", last_run_at |-> "none"],
      [status |-> "approved_for_publish", created_at |-> "none",
       last_run_at |-> "llm time"] }

NewItems(n) ==
    { [case_id |-> id, status |-> sh.status, created_at |-> sh.created_at,
       last_run_at |-> sh.last_run_at] : id \in {1, n + 1}, sh \in ItemShapes }

\* dict.setdefault(key, default): the value the key has afterwards
setdefault(v, default) == IF v = "absent" THEN default ELSE v

\* generate_cases_from_keyword: setdefault of status, created_at, last_run_at.
new_case(item) ==
    [CaseRec(item.case_id, setdefault(item.status, "todo")) EXCEPT
        !.created_at = setdefault(item.created_at, "now"),
        !.last_run_at = setdefault(item.last_run_at, "none")]

\* The batches new_cases can be: no case, one, or two.
NewBatches(n) ==
    {<<>>} \cup { <<new_case(a)>> : a \in NewItems(n) }
           \cup { <<new_case(a), new_case(b)>> : a \in NewItems(n), b \in NewItems(n + 1) }

\* Variant of combined_cases: only the new cases are written.
combined_cases_new_only(existing, new_cases) == new_cases

\* combined = existing + new_cases
combined_cases(existing, new_cases) == existing \o new_cases

\* Variant of file_after_failed_append: the cases generated before the
\* exception are saved.
file_after_failed_append_partial(old, existing, partial) ==
    save_cases(existing \o partial)

\* cases.jsonl after a call that an exception left during the generation
\* (lines 185-191): save_cases at line 193 is not reached, the file is not
\* opened for writing.
file_after_failed_append(old, existing, partial) == old

\* append_new_cases_from_seeds, while no run_all_cases is under way:
\* load_cases, the generation, save_cases(combined). The generation may raise
\* at any point (fetch_serp without API key or on a network error, an LLM
\* call, a reply that is no list), after some cases were generated or none.
AppendNewCases ==
    /\ \A p \in DOMAIN procs : procs[p].pc # "loop"
    /\ runs < MaxRuns
    /\ runs' = runs + 1
    /\ LET existing == load_cases(store)
       IN  \E new_cases \in NewBatches(Len(existing)), raised \in BOOLEAN :
              /\ Len(existing) + Len(new_cases) <= MaxStored
              /\ store' = IF raised
                          THEN file_after_failed_append(store, existing, new_cases)
                          ELSE file_after_save(store,
                                               combined_cases(existing, new_cases))
              /\ appended' = [pc |-> IF raised THEN "raised" ELSE "returned",
                              existing |-> existing, new_cases |-> new_cases]
    /\ UNCHANGED <<procs, fail_log>>
    /\ UNCHANGED svars

\* cases.jsonl at the start: NumCases records, with or without an empty
\* line between them (load_cases skips it).
BlankLine == [blank |-> TRUE, obj |-> CaseRec(0, "none")]

CycleInit ==
    /\ \E gap \in BOOLEAN :
          LET lines == [i \in 1..NumCases |-> json_dumps(CaseRec(i, "todo"))]
          IN  store = IF gap THEN <<lines[1], BlankLine>> \o Tail(lines) ELSE lines
    /\ procs = [p \in {1} |-> IdleProc]
    /\ fail_log = 0
    /\ runs = 0
    /\ Quiet

CycleNext ==
    \/ AppendNewCases
    \/ \E p \in DOMAIN procs :
          \/ CallRunAll(p)
          \/ PassCase(p)
          \/ RunCase(p)
          \/ SaveAndReturn(p)

CycleSpec == CycleInit /\ [][CycleNext]_vars

\* ------------------------------------------- cases.jsonl as written text
\* The steps above keep a line of cases.jsonl as the object it encodes.
\* Here the file is its text, a sequence of characters, and save_cases and
\* load_cases are followed character by character: json.dumps, the "\n"
\* after each case, the split into lines, strip, the skipped empty lines,
\* json.loads. A word such as "todo" counts as one plain character.
MaxText == 1
MaxSaved == 2

Q == "\""
BS == "\\"
NL == "\n"
SP == " "

\* Python values a case record holds: None, a str, a dict (items in order).
PyNone == [t |-> "none", s |-> <<>>, items |-> <<>>]
PyStr(s) == [t |-> "str", s |-> s, items |-> <<>>]
PyDict(items) == [t |-> "dict", s |-> <<>>, items |-> items]

\* Variant of EscChar: a line feed inside a string is written as it is.
EscChar_raw_line_feed(c) ==
    IF c = Q THEN <<BS, Q>> ELSE IF c = BS THEN <<BS, BS>> ELSE <<c>>

\* json.dumps: the characters written for one character of a string.
EscChar(c) ==
    IF c = NL THEN <<BS, "n">>
    ELSE IF c = Q THEN <<BS, Q>>
    ELSE IF c = BS THEN <<BS, BS>>
    ELSE <<c>>

RECURSIVE Esc(_)
Esc(s) == IF s = <<>> THEN <<>> ELSE EscChar(Head(s)) \o Esc(Tail(s))

\* json.dumps(value, ensure_ascii=False), separators ", " and ": ".
RECURSIVE dumps(_), dumps_items(_)
dumps(v) ==
    IF v.t = "none" THEN <<"null">>
    ELSE IF v.t = "str" THEN <<Q>> \o Esc(v.s) \o <<Q>>
    ELSE <<"{">> \o dumps_items(v.items) \o <<"}">>

dumps_items(items) ==
    IF items = <<>> THEN <<>>
    ELSE <<Q>> \o Esc(Head(items).k) \o <<Q, ":", SP>> \o dumps(Head(items).v)
         \o (IF Len(items) > 1 THEN <<",", SP>> \o dumps_items(Tail(items)) ELSE <<>>)

\* The result of a parsing step: the value read and the next position,
\* or the failure json.loads reports by raising.
ParseFail == [ok |-> FALSE, v |-> PyNone, next |-> 0]
Parsed(v, i) == [ok |-> TRUE, v |-> v, next |-> i]

RECURSIVE SkipWs(_, _)
SkipWs(t, i) == IF i <= Len(t) /\ t[i] = SP THEN SkipWs(t, i + 1) ELSE i

\* A string, from the character after its opening quote.
RECURSIVE ScanString(_, _, _)
ScanString(t, i, acc) ==
    IF i > Len(t) \/ t[i] = NL THEN ParseFail
    ELSE IF t[i] = Q THEN Parsed(PyStr(acc), i + 1)
    ELSE IF t[i] = BS
    THEN IF i + 1 > Len(t) THEN ParseFail
         ELSE IF t[i + 1] = "n" THEN ScanString(t, i + 2, Append(acc, NL))
         ELSE IF t[i + 1] \in {Q, BS} THEN ScanString(t, i + 2, Append(acc, t[i + 1]))
         ELSE ParseFail
    ELSE ScanString(t, i + 1, Append(acc, t[i]))

RECURSIVE ParseValue(_, _), ParseItems(_, _, _)
ParseValue(t, i) ==
    LET j == SkipWs(t, i)
    IN  IF j > Len(t) THEN ParseFail
        ELSE IF t[j] = "null" THEN Parsed(PyNone, j + 1)
        ELSE IF t[j] = Q THEN ScanString(t, j + 1, <<>>)
        ELSE IF t[j] = "{"
        THEN IF SkipWs(t, j + 1) <= Len(t) /\ t[SkipWs(t, j + 1)] = "}"
             THEN Parsed(PyDict(<<>>), SkipWs(t, j + 1) + 1)
             ELSE ParseItems(t, j + 1, <<>>)
        ELSE ParseFail

\* The members of an object, from the position of a key.
ParseItems(t, i, acc) ==
    LET j == SkipWs(t, i)
    IN  IF j > Len(t) \/ t[j] # Q THEN ParseFail
        ELSE LET key == ScanString(t, j + 1, <<>>)
                 c == SkipWs(t, key.next)
             IN  IF ~key.ok \/ c > Len(t) \/ t[c] # ":" THEN ParseFail
                 ELSE LET val == ParseValue(t, c + 1)
                          e == SkipWs(t, val.next)
                          member == [k |-> key.v.s, v |-> val.v]
                      IN  IF ~val.ok \/ e > Len(t) THEN ParseFail
                          ELSE IF t[e] = "}" THEN Parsed(PyDict(Append(acc, member)), e + 1)
                          ELSE IF t[e] = "," THEN ParseItems(t, e + 1, Append(acc, member))
                          ELSE ParseFail

\* json.loads(line): one value, and nothing but white space after it.
loads(line) ==
    LET r == ParseValue(line, 1)
    IN  IF r.ok /\ SkipWs(line, r.next) > Len(line) THEN r ELSE ParseFail

\* for line in f: the text cut after each line feed.
RECURSIVE SplitLines(_)
SplitLines(t) ==
    LET ends == { i \in 1..Len(t) : t[i] = NL }
        first == CHOOSE i \in ends : \A j \in ends : i <= j
    IN  IF t = <<>> THEN <<>>
        ELSE IF ends = {} THEN <<t>>
        ELSE <<SubSeq(t, 1, first)>> \o SplitLines(SubSeq(t, first + 1, Len(t)))

\* line.strip()
RECURSIVE strip(_)
strip(line) ==
    IF line = <<>> THEN line
    ELSE IF Head(line) \in {SP, NL} THEN strip(Tail(line))
    ELSE IF line[Len(line)] \in {SP, NL} THEN strip(SubSeq(line, 1, Len(line) - 1))
    ELSE line

\* save_cases: json.dumps(case) + "\n" for each case, into an emptied file.
RECURSIVE write_jsonl(_)
write_jsonl(cs) ==
    IF cs = <<>> THEN <<>> ELSE dumps(Head(cs)) \o <<NL>> \o write_jsonl(Tail(cs))

\* load_cases: strip each line, skip the empty ones, json.loads the others;
\* a line that does not parse makes the call raise.
read_jsonl(text) ==
    LET raw == SplitLines(text)
        ls == SelectSeq([i \in 1..Len(raw) |-> strip(raw[i])], LAMBDA l : l # <<>>)
        parsed == [i \in 1..Len(ls) |-> loads(ls[i])]
    IN  IF \A i \in 1..Len(ls) : parsed[i].ok
        THEN [ok |-> TRUE, cases |-> [i \in 1..Len(ls) |-> parsed[i].v]]
        ELSE [ok |-> FALSE, cases |-> <<>>]

\* The characters of a free text: a letter, and those json.dumps escapes.
TextChars == {"n", NL, Q, BS}

RECURSIVE Texts(_)
Texts(n) ==
    IF n = 0 THEN {<<>>}
    ELSE Texts(n - 1) \cup { Append(s, c) : s \in { x \in Texts(n - 1) : Len(x) = n - 1 },
                                            c \in TextChars }

\* A case as generate_cases_from_keyword leaves it: no deploy key yet.
FreshCase(txt) ==
    PyDict(<< [k |-> <<"case_id">>, v |-> PyStr(<<"c">>)],
              [k |-> <<"situation">>, v |-> PyStr(txt)],
              [k |-> <<"status">>, v |-> PyStr(<<"todo">>)],
              [k |-> <<"last_run_at">>, v |-> PyNone] >>)

\* A case as run_all_cases leaves it after a publish.
PublishedCase(txt) ==
    PyDict(<< [k |-> <<"case_id">>, v |-> PyStr(<<"c">>)],
              [k |-> <<"situation">>, v |-> PyStr(txt)],
              [k |-> <<"status">>, v |-> PyStr(<<"approved_for_publish">>)],
              [k |-> <<"last_run_at">>, v |-> PyNone],
              [k |-> <<"deploy">>,
               v |-> PyDict(<< [k |-> <<"status">>, v |-> PyStr(<<"success">>)],
                               [k |-> <<"message">>,
                                v |-> PyStr(<<"deploy", SP, "stub", SP, "success">>)] >>)] >>)

SavedCases == { FreshCase(s) : s \in Texts(MaxText) }
                  \cup { PublishedCase(s) : s \in Texts(MaxText) }

RECURSIVE Collections(_)
Collections(n) ==
    IF n = 0 THEN {<<>>}
    ELSE Collections(n - 1)
         \cup { Append(cs, c) : cs \in { x \in Collections(n - 1) : Len(x) = n - 1 },
                                c \in SavedCases }

rvars == <<store, cases, dpc, idx, processed, max_cases_per_run, test_lenient,
           results, deployed, before_fail_count, fail_log, runs, ppc, draft, review,
           approved, rounds, final_gate_review, safe_draft, final_fix, result, cnt,
           wvalid, exc, procs, pages, gen, validation, appended>>

RoundTripInit ==
    /\ \E cs \in Collections(MaxSaved) :
          rt = [pc |-> "given", given |-> cs, text |-> <<>>,
                loaded |-> [ok |-> TRUE, cases |-> <<>>]]
    /\ pages = NoPages
    /\ gen = NoGen
    /\ validation = NoValidation
    /\ appended = NoAppend
    /\ store = <<>>
    /\ procs = NoProcs
    /\ fail_log = 0
    /\ runs = 0
    /\ cases = <<>>
    /\ dpc = "idle"
    /\ idx = 0
    /\ processed = 0
    /\ max_cases_per_run = 0
    /\ test_lenient = FALSE
    /\ results = <<>>
    /\ deployed = <<>>
    /\ before_fail_count = 0
    /\ ppc = "idle"
    /\ draft = NoneDraft
    /\ review = NoReview
    /\ approved = FALSE
    /\ rounds = 0
    /\ final_gate_review = NoReview
    /\ safe_draft = NoneDraft
    /\ final_fix = NoneDraft
    /\ result = NoResult
    /\ cnt = NoCalls
    /\ wvalid = <<>>
    /\ exc = "none"

\* save_cases(cases, path)
SaveCases ==
    /\ rt.pc = "given"
    /\ rt' = [rt EXCEPT !.pc = "saved", !.text = write_jsonl(rt.given)]
    /\ UNCHANGED rvars

\* load_cases(path)
LoadCases ==
    /\ rt.pc = "saved"
    /\ rt' = [rt EXCEPT !.pc = "loaded", !.loaded = read_jsonl(rt.text)]
    /\ UNCHANGED rvars

RoundTripNext == SaveCases \/ LoadCases

RoundTripSpec == RoundTripInit /\ [][RoundTripNext]_vars

\* run_page_pipeline is not executing.
PipeLocalsStart ==
    /\ ppc = "idle"
    /\ draft = NoneDraft
    /\ review = NoReview
    /\ approved = FALSE
    /\ rounds = 0
    /\ final_gate_review = NoReview
    /\ safe_draft = NoneDraft
    /\ final_fix = NoneDraft
    /\ result = NoResult
    /\ cnt = NoCalls
    /\ wvalid = <<>>
    /\ exc = "none"

\* ------------------------------------------------- site_catalog: pages.json
\* pages.json is followed as the list of its entries, in file order; a
\* timestamp is the reading of a clock that advances between calls.
MaxSlugs == 2
MaxClock == 3

Slugs == 1..MaxSlugs

\* page_meta["slug"] == "": falsy, like a missing slug (None).
EmptySlug == 0

\* a key that is not in the dict (slug, created_at)
AbsentKey == NullLen

CatalogEntry(slug, title, category, description, created_at, updated_at) ==
    [slug |-> slug, title |-> title, category |-> category,
     description |-> description, created_at |-> created_at,
     updated_at |-> updated_at]

\* The page_meta arguments followed: every slug, an empty and a missing one;
\* title, category and description all given or all left out; created_at
\* given or left out.
PageMetas ==
    [slug : Slugs \cup {EmptySlug, AbsentKey},
     title : {"absent", "new title"},
     category : {"absent", "new category"},
     description : {"absent", "new description"},
     created_at : {AbsentKey, 0}]

PageMetaArgs ==
    {m \in PageMetas : (m.title = "absent") = (m.category = "absent")
                       /\ (m.title = "absent") = (m.description = "absent")}

\* load_pages_json: [] when the file is missing or does not hold a list
load_pages_json(pg) == IF pg.kind = "list" THEN pg.file ELSE <<>>

\* the for loop with break: the first position holding the slug, 0 for None
existing_idx(ps, slug) ==
    IF \E i \in 1..Len(ps) : ps[i].slug = slug
    THEN CHOOSE i \in 1..Len(ps) :
            ps[i].slug = slug /\ \A j \in 1..(i - 1) : ps[j].slug # slug
    ELSE 0

\* dict.get(key, default) on a text field of page_meta
meta_get(v, default) == IF v = "absent" THEN default ELSE v

new_entry(page_meta, now) ==
    CatalogEntry(page_meta.slug,
                 meta_get(page_meta.title, ToString(page_meta.slug)),
                 meta_get(page_meta.category, "etc"),
                 meta_get(page_meta.description, ""),
                 IF page_meta.created_at = AbsentKey THEN now
                                                     ELSE page_meta.created_at,
                 now)

old_created_reset(entry, now) == now

\* pages[existing_idx].get("created_at", now)
old_created(entry, now) ==
    IF entry.created_at = AbsentKey THEN now ELSE entry.created_at

\* The list update_pages_json saves: the entry replaced in place with the old
\* created_at, or appended.
updated_pages(ps, page_meta, now) ==
    LET i == existing_idx(ps, page_meta.slug)
        e == new_entry(page_meta, now)
    IN  IF i # 0
        THEN [ps EXCEPT ![i] = [e EXCEPT !.created_at = old_created(ps[i], now)]]
        ELSE Append(ps, e)

\* update_pages_json(public_dir, page_meta)
UpdatePagesJson ==
    /\ pages.now < MaxClock
    /\ \E page_meta \in PageMetaArgs :
         LET ps == load_pages_json(pages)
             now == pages.now + 1
         IN  IF page_meta.slug \in {EmptySlug, AbsentKey}
             THEN pages' = [pages EXCEPT !.pc = "raised", !.now = now,
                                         !.found = ps, !.arg = page_meta]
             ELSE pages' = [pc |-> "saved", kind |-> "list",
                            file |-> updated_pages(ps, page_meta, now),
                            now |-> now, found |-> ps, arg |-> page_meta]
    /\ UNCHANGED <<store, cases, dpc, idx, processed, max_cases_per_run,
                   test_lenient, results, deployed, before_fail_count, fail_log,
                   runs, procs, rt, gen, validation, appended>>
    /\ UNCHANGED pvars

DistinctSlugs(ps) ==
    \A i, j \in 1..Len(ps) : ps[i].slug = ps[j].slug => i = j

\* Catalogs the file can hold at the start: entries written at time 0 with
\* pairwise distinct slugs, with or without a created_at.
RECURSIVE InitCatalogs(_)
InitCatalogs(n) ==
    IF n = 0 THEN {<<>>}
    ELSE LET shorter == InitCatalogs(n - 1)
         IN  shorter \cup
             {Append(ps, CatalogEntry(s, "old title", "old category",
                                      "old description", c, 0)) :
                <<ps, s, c>> \in {t \in shorter \X Slugs \X {AbsentKey, 0} :
                                    /\ Len(t[1]) = n - 1
                                    /\ \A i \in 1..Len(t[1]) : t[1][i].slug # t[2]}}

CatalogInit ==
    /\ \E kind \in {"missing", "object", "list"} :
         \E ps \in InitCatalogs(MaxSlugs) :
            /\ kind # "list" => ps = <<>>
            /\ pages = [NoPages EXCEPT !.kind = kind, !.file = ps]
    /\ gen = NoGen
    /\ validation = NoValidation
    /\ appended = NoAppend
    /\ rt = NoRt
    /\ store = <<>>
    /\ procs = NoProcs
    /\ fail_log = 0
    /\ runs = 0
    /\ cases = <<>>
    /\ dpc = "idle"
    /\ idx = 0
    /\ processed = 0
    /\ max_cases_per_run = 0
    /\ test_lenient = FALSE
    /\ results = <<>>
    /\ deployed = <<>>
    /\ before_fail_count = 0
    /\ PipeLocalsStart

CatalogNext == UpdatePagesJson

CatalogSpec == CatalogInit /\ [][CatalogNext]_vars

\* ------------------------------------------ pipeline_cases: the generators
\* One call of a generator is followed. A response of the LLM gateway is
\* followed by its top-level shape: an array,
\* an object (of which one key is followed: a wrapper key or another one, with
\* an array or something else as its value), any other JSON value, or an
\* exception of call_llm_json. An element of an array is a dict ("record") or
\* not ("scalar").
MaxItems == 3
DEFAULT_N_KEYWORDS_PER_SEED == 4

Items == {"record", "scalar"}

ItemLists(n) == UNION {[1..k -> Items] : k \in 0..n}

ObjectKeys == {"result", "keywords", "cases", "data"}

LLMResponse(kind, key, islist, items) ==
    [kind |-> kind, key |-> key, islist |-> islist, items |-> items]

\* call_llm_json raises on an empty array and on an empty object.
LLMResponses ==
    {LLMResponse("list", "none", TRUE, l) : l \in ItemLists(MaxItems) \ {<<>>}}
    \cup {LLMResponse("object", k, TRUE, l) :
             k \in ObjectKeys, l \in ItemLists(MaxItems)}
    \cup {LLMResponse("object", k, FALSE, <<>>) : k \in ObjectKeys}
    \cup {LLMResponse("scalar", "none", FALSE, <<>>),
          LLMResponse("raise", "none", FALSE, <<>>)}

keyword_keys == <<"result", "results", "keywords", "items">>
case_keys == <<"cases", "result", "results", "items">>
candidate_keys(fn) == IF fn = "keywords" THEN keyword_keys ELSE case_keys

Extracted(l) == [ok |-> TRUE, list |-> l]
ExtractError == [ok |-> FALSE, list |-> <<>>]

\* Variant of _extract_list: a value that is neither array nor object gives
\* an empty list.
_extract_list_scalar_as_empty(obj, keys) ==
    IF obj.kind = "list" THEN Extracted(obj.items)
    ELSE IF obj.kind = "object"
    THEN IF obj.key \in Range(keys)
         THEN IF obj.islist THEN Extracted(obj.items) ELSE ExtractError
         ELSE Extracted(<<"record">>)
    ELSE Extracted(<<>>)

\* _extract_list(obj, candidate_keys): a list as it is; of a dict the value of
\* the candidate key it has, which must be a list; a dict with no candidate
\* key as the one element of a list; ValueError for anything else.
_extract_list(obj, keys) ==
    IF obj.kind = "list" THEN Extracted(obj.items)
    ELSE IF obj.kind = "object"
    THEN IF obj.key \in Range(keys)
         THEN IF obj.islist THEN Extracted(obj.items) ELSE ExtractError
         ELSE Extracted(<<"record">>)
    ELSE ExtractError

\* _extract_list(_call_keyword_llm(), keys): an exception of the call or of
\* the extraction leaves the generator.
llm_list(reply, keys) ==
    IF reply.kind = "raise" THEN ExtractError ELSE _extract_list(reply, keys)

\* Variant of needs_retry: only an empty list is asked for again.
needs_retry_when_empty(items) == Len(items) < 1

\* if len(result) < 2
needs_retry(items) == Len(items) < 2

\* Variant of truncated: one item more is kept.
truncated_one_more(items, max_keywords) ==
    SubSeq(items, 1, IF Len(items) < max_keywords + 1 THEN Len(items)
                                                         ELSE max_keywords + 1)

\* result[:max_keywords], max_keywords >= 0
truncated(items, max_keywords) ==
    SubSeq(items, 1, IF Len(items) < max_keywords THEN Len(items)
                                                     ELSE max_keywords)

\* the loop of generate_cases_from_keyword: items that are no dict are skipped
case_items(items) == SelectSeq(items, LAMBDA item : item = "record")

GenRaised(fn, replies, max_keywords) ==
    [pc |-> "raised", fn |-> fn, replies |-> replies, result |-> <<>>,
     max_keywords |-> max_keywords]

GenReturned(fn, replies, items, max_keywords) ==
    [pc |-> "returned", fn |-> fn, replies |-> replies, result |-> items,
     max_keywords |-> max_keywords]

\* What the generator returns from the list it ends with.
gen_output(fn, items, max_keywords) ==
    IF fn = "keywords" THEN truncated(items, max_keywords)
                       ELSE case_items(items)

\* The body shared by generate_keywords_from_seed (114-118) and
\* generate_cases_from_keyword (156-171): r1 is the response to the first
\* call, r2 the response a second call would get.
generate(fn, r1, r2, max_keywords) ==
    LET keys == candidate_keys(fn)
        first == llm_list(r1, keys)
        retry == llm_list(r2, keys)
    IN  IF ~first.ok THEN GenRaised(fn, <<r1>>, max_keywords)
        ELSE IF ~needs_retry(first.list)
        THEN GenReturned(fn, <<r1>>, gen_output(fn, first.list, max_keywords),
                         max_keywords)
        ELSE IF ~retry.ok THEN GenRaised(fn, <<r1, r2>>, max_keywords)
        ELSE GenReturned(fn, <<r1, r2>>,
                         gen_output(fn, retry.list, max_keywords), max_keywords)

MaxKeywordsChoices == {0, 1, 2, DEFAULT_N_KEYWORDS_PER_SEED}

GenFrame ==
    /\ UNCHANGED <<store, cases, dpc, idx, processed, max_cases_per_run,
                   test_lenient, results, deployed, before_fail_count, fail_log,
                   runs, procs, rt, pages, validation, appended>>
    /\ UNCHANGED pvars

\* generate_keywords_from_seed(seed, max_keywords): fetch_serp raises when the
\* search API is not configured or fails, before any LLM call.
GenerateKeywords ==
    /\ gen.pc = "idle"
    /\ \E max_keywords \in MaxKeywordsChoices, serp_ok \in BOOLEAN :
         \E r1, r2 \in LLMResponses :
            gen' = IF serp_ok THEN generate("keywords", r1, r2, max_keywords)
                              ELSE GenRaised("keywords", <<>>, max_keywords)
    /\ GenFrame

\* generate_cases_from_keyword(keyword_record, n_cases)
GenerateCases ==
    /\ gen.pc = "idle"
    /\ \E r1, r2 \in LLMResponses : gen' = generate("cases", r1, r2, 0)
    /\ GenFrame

GenInit ==
    /\ gen = NoGen
    /\ validation = NoValidation
    /\ appended = NoAppend
    /\ pages = NoPages
    /\ rt = NoRt
    /\ store = <<>>
    /\ procs = NoProcs
    /\ fail_log = 0
    /\ runs = 0
    /\ cases = <<>>
    /\ dpc = "idle"
    /\ idx = 0
    /\ processed = 0
    /\ max_cases_per_run = 0
    /\ test_lenient = FALSE
    /\ results = <<>>
    /\ deployed = <<>>
    /\ before_fail_count = 0
    /\ PipeLocalsStart

GenNext == GenerateKeywords \/ GenerateCases

GenSpec == GenInit /\ [][GenNext]_vars

\* ------------------------------------------- pipeline_pages: the validator
\* The drafts given to the validator directly: objects with a headline that
\* is null, empty, one character short or long enough, without sections or
\* with a first section whose body is null, empty, one character short or
\* long enough, each meta field present or not; and values that are no object.
ValidatorInputs ==
    { Doc(TRUE, TRUE, h, s, b, sl, ti, de) :
        h \in {NullLen, 0, HEADLINE_MIN - 1, HEADLINE_MIN},
        s \in {0, 1},
        b \in {NullLen, 0, BODY_MIN - 1, BODY_MIN},
        sl \in BOOLEAN, ti \in BOOLEAN, de \in BOOLEAN }
    \cup {NoneDraft, ListDraft}

ValidatorFrame ==
    /\ UNCHANGED <<store, cases, dpc, idx, processed, max_cases_per_run,
                   test_lenient, results, deployed, before_fail_count, fail_log,
                   runs, procs, rt, pages, gen, appended>>
    /\ UNCHANGED pvars

\* The call of the validator named fn on the draft given.
Validated(fn, v) ==
    IF v.raised
    THEN [validation EXCEPT !.pc = "raised", !.fn = fn]
    ELSE [validation EXCEPT !.pc = "returned", !.fn = fn, !.valid = v.valid,
                            !.issues = v.issues]

\* validate_writer_output(draft)
ValidateWriterOutput ==
    /\ validation.pc = "given"
    /\ validation' = Validated("validate_writer_output",
                               validate_writer_output(validation.draft))
    /\ ValidatorFrame

\* validate_page_output(draft)
ValidatePageOutput ==
    /\ validation.pc = "given"
    /\ validation' = Validated("validate_page_output",
                               validate_page_output(validation.draft))
    /\ ValidatorFrame

ValidatorInit ==
    /\ \E d \in ValidatorInputs :
          validation = [NoValidation EXCEPT !.pc = "given", !.draft = d]
    /\ appended = NoAppend
    /\ gen = NoGen
    /\ pages = NoPages
    /\ rt = NoRt
    /\ store = <<>>
    /\ procs = NoProcs
    /\ fail_log = 0
    /\ runs = 0
    /\ cases = <<>>
    /\ dpc = "idle"
    /\ idx = 0
    /\ processed = 0
    /\ max_cases_per_run = 0
    /\ test_lenient = FALSE
    /\ results = <<>>
    /\ deployed = <<>>
    /\ before_fail_count = 0
    /\ PipeLocalsStart

ValidatorNext == ValidateWriterOutput \/ ValidatePageOutput

ValidatorSpec == ValidatorInit /\ [][ValidatorNext]_vars

TypeOK ==
    /\ dpc \in {"idle", "loop", "pipeline", "returned", "crashed", "single"}
    /\ ppc \in {"idle", "writer1", "writer2", "review0", "fixer", "review",
                "gate", "gatefix", "done", "raised"}
    /\ rounds \in 0..MAX_ROUNDS
    /\ approved \in BOOLEAN
    /\ exc \in {"none", "call_writer", "call_llm_json", "validator", "fallback",
                "call_reviewer", "call_final_gate", "final_gate_no_approved"}

\* ------------------------------------------------------------------- claims

\* Both Writer attempts of this execution failed the validator.
BothWriterAttemptsInvalid == Len(wvalid) = 2 /\ ~wvalid[1] /\ ~wvalid[2]

\* C1: when the loop ends because rounds reached MAX_ROUNDS without approval
\* and every round's Fixer draft was accepted, the returned status is
\* blocked_by_loop.
C1_ExhaustedLoopIsBlockedByLoop ==
    (ppc = "done" /\ ~result.approved /\ result.rounds = MAX_ROUNDS
       /\ cnt.reviewer = MAX_ROUNDS + 1)
    => result.status = "blocked_by_loop"

\* C2: after two Writer attempts that both fail the validator, the workflow
\* goes on with (and returns) the template fallback draft, a complete draft
\* tagged _fallback; it never ends without a draft on this path.
C2_FallbackDraftReturned ==
    BothWriterAttemptsInvalid
    => /\ ppc # "raised"
       /\ draft.kind = "dict" /\ IsValid(draft)
       /\ (cnt.fixer + cnt.gatefix = 0 => draft.fallback)
       /\ (ppc = "done" => result.draft.kind = "dict" /\ IsValid(result.draft))

\* C3: within one execution a working draft that passes the validator is never
\* replaced by one that fails it, and the returned draft passes it as well.
C3_ValidDraftNeverRegresses ==
    [][ (IsValid(draft) /\ ppc' # "idle")
        => (IsValid(draft') /\ (ppc' = "done" => IsValid(result'.draft))) ]_vars

C3_Witness ==
    /\ ppc = "done"
    /\ cnt.fixer > 0
    /\ cnt.gatefix = 1
    /\ ~IsValid(final_fix)
    /\ IsValid(result.draft)

\* C4: a result with status approved_for_publish has a draft that passes the
\* validator, loop approval true, and a Final Gate verdict that was obtained
\* and approves.
C4_ApprovedForPublishMeans ==
    (ppc = "done" /\ result.status = "approved_for_publish")
    => /\ IsValid(result.draft)
       /\ result.approved
       /\ result.final_gate.kind = "dict"
       /\ result.final_gate.approved = "true"

C4_Witness ==
    /\ ppc = "done"
    /\ result.status = "approved_for_publish"
    /\ test_lenient
    /\ LenientNote \in Range(result.review.reasons)

\* C5: the loop runs at most MAX_ROUNDS rounds: rounds, the returned rounds
\* and the number of Fixer calls of the loop never exceed MAX_ROUNDS.
C5_RoundCap ==
    /\ rounds <= MAX_ROUNDS
    /\ cnt.fixer <= MAX_ROUNDS
    /\ (ppc = "done" => result.rounds <= MAX_ROUNDS)

C5_Witness ==
    /\ ppc = "done"
    /\ result.rounds = MAX_ROUNDS
    /\ cnt.fixer = MAX_ROUNDS
    /\ ~result.approved

\* C6: a Final Gate verdict that does not approve gives the status
\* blocked_by_final_gate, and the driver does not call run_html_and_deploy
\* for that case.
C6_GateRejectionBlocks ==
    /\ (ppc = "done" /\ result.final_gate.kind = "dict"
          /\ ~PyBool(result.final_gate.approved))
       => result.status = "blocked_by_final_gate"
    /\ \A i \in 1..Len(results) :
          results[i].gate = "rejected"
          => /\ results[i].status = "blocked_by_final_gate"
             /\ results[i].deploy = "none"
             /\ results[i].case \notin Range(deployed)

C6_Witness ==
    \E i \in 1..Len(results) :
       /\ results[i].gate = "rejected"
       /\ results[i].deploy = "none"
       /\ cases[results[i].case].status = "blocked_by_final_gate"

\* C7: when the gate approves with fix_suggestions and the follow-up Fixer
\* pass fails (error marker, exception, or a draft that fails validation),
\* the status is approved_for_publish and the returned draft is the draft
\* that was submitted to the gate.
C7_LateFixerFailureKeepsDraft ==
    (ppc = "done" /\ cnt.gatefix = 1 /\ (final_fix.err \/ ~IsValid(final_fix)))
    => /\ result.status = "approved_for_publish"
       /\ result.draft = safe_draft
       /\ draft = safe_draft

C7_Witness ==
    /\ ppc = "done"
    /\ cnt.gatefix = 1
    /\ final_fix.err
    /\ has_fix_suggestions(result.final_gate)
    /\ result.draft = safe_draft

\* C8: every execution of run_page_pipeline ends by returning a result whose
\* status is one of the five terminal statuses.
C8_EndsInTerminalStatus ==
    ppc \in {"done", "raised"}
    => (ppc = "done" /\ result.status \in TerminalStatuses)

\* C9: no failure while processing a case leaves the loop of run_all_cases
\* as an unhandled exception.
C9_NoExceptionEscapesDriver == dpc # "crashed"

\* C10: every invocation of run_all_cases ends with the Case Store holding the
\* collection as updated in memory, so that every processed case's status is
\* persisted.
C10_InvocationEndsSaved ==
    [][ (dpc \in {"loop", "pipeline"} /\ dpc' \in {"returned", "crashed"})
        => load_cases(store') = cases ]_vars

\* C11: run_all_cases calls run_html_and_deploy for a case if and only if the
\* status run_page_pipeline returned is exactly approved_for_publish: every
\* entry of results has a deploy result exactly when its status is
\* approved_for_publish, and the publish calls of the invocation are exactly
\* the approved cases, in order.
C11_DeployIffApproved ==
    /\ \A i \in 1..Len(results) :
          (results[i].deploy # "none") <=> (results[i].status = "approved_for_publish")
    /\ LET ok == SelectSeq(results, LAMBDA e : e.status = "approved_for_publish")
       IN  /\ Len(deployed) = Len(ok)
           /\ \A j \in 1..Len(ok) : deployed[j] = ok[j].case

\* One invocation has handled an approved case, which it published, and a
\* case that ended fixer_failed and one that the gate blocked, which it did not.
C11_Witness ==
    /\ \E i \in 1..Len(results) :
          results[i].status = "approved_for_publish" /\ results[i].deploy # "none"
    /\ \E i \in 1..Len(results) :
          results[i].status \in {"fixer_failed", "blocked_by_final_gate"}
          /\ results[i].deploy = "none"

\* C12: within one invocation run_all_cases runs the workflow only on cases
\* whose stored status is todo or unset, in file order, skipping none of
\* them, and on at most max_cases_per_run cases. The store is what the
\* invocation loaded: nothing writes it before the invocation ends.
C12_OnlyPendingInOrderCapped ==
    dpc \in {"loop", "pipeline"} =>
        LET stored == load_cases(store)
            ran == [i \in 1..Len(results) |-> results[i].case]
            seen == IF dpc = "pipeline" THEN Append(ran, idx) ELSE ran
        IN  /\ \A i \in 1..Len(seen) :
                  /\ seen[i] \in 1..Len(stored)
                  /\ stored[seen[i]].status \in {"todo", "none"}
            /\ \A i, j \in 1..Len(seen) : i < j => seen[i] < seen[j]
            /\ Len(seen) <= max_cases_per_run
            /\ processed = Len(results)
            /\ \A k \in 1..Len(stored) :
                  (k < idx /\ stored[k].status \in {"todo", "none"}) => k \in Range(seen)

\* A second invocation with max_cases_per_run = 1 passed over the first
\* case, which an earlier invocation had settled, ran the second and stopped.
C12_Witness ==
    /\ dpc = "loop"
    /\ max_cases_per_run = 1
    /\ processed = 1
    /\ Len(results) = 1
    /\ results[1].case = 2
    /\ load_cases(store)[1].status \notin {"todo", "none"}

\* C13: in the fix/review loop, a Fixer call whose output is not adopted as
\* the draft (an error marker, or a draft that does not pass the validator)
\* makes run_page_pipeline return at once: status fixer_failed, approved
\* false, the draft held before the call, and no Reviewer or Final Gate call.
\* An adopted output has a new stamp, so draft' = draft is "not adopted".
C13_LoopFixerFailureReturns ==
    [][ (ppc = "fixer" /\ cnt'.fixer = cnt.fixer + 1 /\ draft' = draft) =>
            /\ ppc' = "done"
            /\ result'.status = "fixer_failed"
            /\ ~result'.approved
            /\ result'.draft = draft
            /\ result'.final_gate = NoReview
            /\ cnt'.reviewer = cnt.reviewer
            /\ cnt'.gate = cnt.gate ]_vars

\* C14: an exception at any step of run_html_and_deploy is caught: the call
\* returns a result, failed, and deploy_failures.jsonl gains exactly one
\* entry; a successful publish adds none. So during an invocation the log
\* has grown, since before_fail_count was taken, by the number of failed
\* publishes, and every publish attempt has a result.
C14_DeployFailureLoggedOnce ==
    dpc \in {"loop", "pipeline"} =>
        /\ fail_log = before_fail_count
                      + Cardinality({ i \in 1..Len(results) : results[i].deploy = "failed" })
        /\ \A i \in 1..Len(results) :
              results[i].status = "approved_for_publish"
                  => /\ results[i].deploy \in DeployOutcomes
                     /\ cases[results[i].case].deploy = results[i].deploy

\* One invocation has published one case and failed to publish another:
\* the log holds one entry more than at its start.
C14_Witness ==
    /\ dpc = "loop"
    /\ \E i, j \in 1..Len(results) :
          results[i].deploy = "failed" /\ results[j].deploy = "success"
    /\ fail_log = before_fail_count + 1

C18_MissingApprovedIsNoted ==
    [][ ( /\ ppc \in {"review0", "review"}
          /\ cnt'.reviewer = cnt.reviewer + 1
          /\ ppc' # "raised"
          /\ review'.raw = "absent" )
        => /\ review'.approved = "false"
           /\ MissingNote \in Range(review'.reasons)
           /\ (approved' => LenientNote \in Range(review'.reasons)) ]_vars

\* C19: a Final Gate reply without the approved key makes call_final_gate
\* raise instead of being read as a disapproval: no verdict without the key
\* is ever used, and when the error is raised run_page_pipeline returns
\* nothing and the case has not been published nor its record changed.
C19_GateWithoutApprovedRaises ==
    /\ final_gate_review.approved = "absent" => final_gate_review = NoReview
    /\ result.final_gate.approved = "absent" => result.final_gate = NoReview
    /\ exc = "final_gate_no_approved" =>
          /\ ppc = "raised"
          /\ result = NoResult
          /\ final_gate_review = NoReview
          /\ dpc = "pipeline" =>
                /\ idx \notin Range(deployed)
                /\ \A i \in 1..Len(results) : results[i].case # idx
                /\ cases[idx] = load_cases(store)[idx]
                /\ cases[idx].deploy = "absent"

\* The driver is running a case whose Final Gate reply had no approved key.
C19_Witness ==
    /\ dpc = "pipeline"
    /\ ppc = "raised"
    /\ exc = "final_gate_no_approved"
    /\ cnt.gate = 1

\* C15: two overlapping invocations of run_all_cases are unsafe. Each ends
\* by writing its own in-memory collection over cases.jsonl whatever the
\* file holds by then, so the one that saves last decides every record
\* (below); and both can run and publish the same todo case, the second
\* save hiding what the first invocation recorded (C15_Witness).
C15_LastSaveOverwrites ==
    [][ \A p \in DOMAIN procs :
          (procs[p].pc = "loop" /\ procs'[p].pc = "returned")
              => load_cases(store') = procs[p].cases ]_vars

\* Both invocations have returned; both published case 1; invocation 1 also
\* settled another case, and the file, written last by invocation 2, still
\* shows that case as pending.
C15_Witness ==
    /\ procs[1].pc = "returned"
    /\ procs[2].pc = "returned"
    /\ 1 \in Range(procs[1].deployed)
    /\ 1 \in Range(procs[2].deployed)
    /\ load_cases(store) = procs[2].cases
    /\ \E j \in 1..Len(procs[1].cases) :
          /\ ~is_pending(procs[1].cases[j])
          /\ is_pending(load_cases(store)[j])

\* C16: no case record is ever deleted. Over any sequence of
\* append_new_cases_from_seeds and run_all_cases calls made one at a time,
\* each step leaves every stored case in the file, at the same place in the
\* order; and append_new_cases_from_seeds leaves the stored records as they
\* were and puts the new ones after them.
C16_CasesNeverDeleted ==
    [][ LET old == load_cases(store)
            new == load_cases(store')
        IN  /\ Len(new) >= Len(old)
            /\ \A i \in 1..Len(old) : new[i].case_id = old[i].case_id
            /\ (procs' = procs /\ runs' = runs + 1) =>
                  \A i \in 1..Len(old) : new[i] = old[i] ]_vars

\* A case was appended after a run had settled the first case: the file
\* holds the settled record first and the new, pending record last.
C16_Witness ==
    /\ \A p \in DOMAIN procs : procs[p].pc = "returned"
    /\ Len(load_cases(store)) > NumCases
    /\ ~is_pending(load_cases(store)[1])
    /\ load_cases(store)[Len(load_cases(store))].status = "todo"

\* C20: save_cases followed by load_cases on the same path gives back the
\* case records that were saved, field for field and in the same order.
C20_SaveLoadRoundTrip ==
    rt.pc = "loaded" => (rt.loaded.ok /\ rt.loaded.cases = rt.given)

\* Two different cases were written and read back; the text of one holds a
\* line feed, a quote or a backslash.
C20_Witness ==
    /\ rt.pc = "loaded"
    /\ Len(rt.given) = 2
    /\ rt.given[1] # rt.given[2]
    /\ \E i \in 1..2 : rt.given[i].items[2].v.s \in {<<NL>>, <<Q>>, <<BS>>}
    /\ Len(SplitLines(rt.text)) = 2

\* C21: starting from a catalog with pairwise distinct slugs (or an empty or
\* missing one), after any sequence of update_pages_json calls the catalog has
\* at most one entry per slug; a call for a slug the file already held leaves
\* the length, the other entries, and that entry's position and created_at as
\* they were, and sets its title, category, description and updated_at from
\* the call.
C21_CatalogKeyedBySlug ==
    /\ DistinctSlugs(pages.file)
    /\ (pages.pc = "saved" /\ existing_idx(pages.found, pages.arg.slug) # 0)
       => LET i == existing_idx(pages.found, pages.arg.slug)
              e == new_entry(pages.arg, pages.now)
          IN  /\ Len(pages.file) = Len(pages.found)
              /\ \A j \in 1..Len(pages.found) :
                    j # i => pages.file[j] = pages.found[j]
              /\ pages.file[i].slug = pages.arg.slug
              /\ pages.found[i].created_at # AbsentKey
                 => pages.file[i].created_at = pages.found[i].created_at
              /\ pages.file[i].title = e.title
              /\ pages.file[i].category = e.category
              /\ pages.file[i].description = e.description
              /\ pages.file[i].updated_at = pages.now

\* C21 witness: the second of two entries, appended by an earlier call, was
\* updated later with a page_meta that carries another created_at and new texts.
C21_Witness ==
    /\ pages.pc = "saved"
    /\ Len(pages.found) = 2
    /\ existing_idx(pages.found, pages.arg.slug) = 2
    /\ pages.found[2].created_at > 0
    /\ pages.found[2].updated_at > 0
    /\ pages.arg.created_at # AbsentKey
    /\ pages.arg.created_at # pages.found[2].created_at
    /\ pages.arg.title # "absent"
    /\ pages.found[2].title # pages.file[2].title
    /\ pages.now > pages.found[2].updated_at

\* The response shapes the generators are said to reject: neither an array
\* nor an object holding one of the generator's wrapper keys.
NoListShape(reply, fn) ==
    /\ reply.kind # "list"
    /\ ~(reply.kind = "object" /\ reply.key \in Range(candidate_keys(fn)))

RejectedShape(reply, fn) ==
    \/ reply.kind \in {"scalar", "raise"}
    \/ /\ reply.kind = "object"
       /\ reply.key \in Range(candidate_keys(fn))
       /\ ~reply.islist

C23_RetryOnceAndTruncate ==
    /\ Len(gen.replies) <= 2
    /\ gen.fn # "none" /\ gen.replies # <<>>
       => LET first == llm_list(gen.replies[1], candidate_keys(gen.fn))
          IN  Len(gen.replies) = 2 <=> (first.ok /\ Len(first.list) < 2)
    /\ (gen.fn = "keywords" /\ gen.pc = "returned")
       => Len(gen.result) <= gen.max_keywords

\* C23 witness: the keyword generator asked again after a one-item list and
\* cut the longer second list down to max_keywords.
C23_Witness ==
    /\ gen.fn = "keywords"
    /\ gen.pc = "returned"
    /\ Len(gen.replies) = 2
    /\ Len(llm_list(gen.replies[1], keyword_keys).list) = 1
    /\ Len(gen.replies[2].items) > gen.max_keywords
    /\ Len(gen.result) = gen.max_keywords
    /\ gen.max_keywords > 0

\* C24: the draft build_fallback_draft builds for the case passes the Draft
\* Validator (headline, sections, first section body, slug, title and
\* description all in order), whatever the case record holds.
C24_FallbackDraftIsValid ==
    BothWriterAttemptsInvalid
    => LET fb == build_fallback_draft(cases[idx])
           v  == validate_writer_output(fb)
       IN  /\ fb.kind = "dict"
           /\ ~v.raised
           /\ v.valid
           /\ v.issues = {}

\* C25: when both Writer attempts and the fallback draft fail validation,
\* run_page_pipeline returns writer_hard_fail with approved = false,
\* rounds = 0, no review, no final gate and the issue map, and has called
\* neither Reviewer nor Fixer nor Final Gate.
C25_HardFailReturned ==
    (/\ BothWriterAttemptsInvalid
     /\ ~validate_writer_output(build_fallback_draft(cases[idx])).valid)
    => /\ ppc = "done"
       /\ result.status = "writer_hard_fail"
       /\ ~result.approved
       /\ result.rounds = 0
       /\ result.review = NoReview
       /\ result.final_gate = NoReview
       /\ result.issues = validate_writer_output(build_fallback_draft(cases[idx])).issues
       /\ cnt.reviewer = 0 /\ cnt.fixer = 0 /\ cnt.gate = 0 /\ cnt.gatefix = 0

\* The checks of the Draft Validator a draft object fails, each taken alone.
FailingChecks(d) ==
    {c \in {"headline", "sections", "first_section_body", "slug", "title",
            "description"} :
        \/ c = "headline" /\ d.headline < HEADLINE_MIN
        \/ c = "sections" /\ d.sections = 0
        \/ c = "first_section_body" /\ (d.sections = 0 \/ d.body < BODY_MIN)
        \/ c = "slug" /\ ~d.slug
        \/ c = "title" /\ ~d.title
        \/ c = "description" /\ ~d.description}

\* C26: the validator reports every check a draft fails and no other: for a
\* draft object the issue map has an entry for exactly the failing checks, and
\* the draft is valid if and only if the issue map is empty. (A value that is
\* no object is only required to be invalid with a non-empty issue map.)
C26_IssuesAreExactlyFailingChecks ==
    validation.pc \notin {"idle", "given"}
    => /\ validation.pc = "returned"
       /\ validation.valid <=> validation.issues = {}
       /\ IF validation.draft.kind = "dict"
          THEN validation.issues = FailingChecks(validation.draft)
          ELSE validation.issues # {}

\* C27: in one execution the Final Gate is called at most once, and only with
\* the loop-approval flag true; an execution that ended as fixer_failed or
\* writer_hard_fail, or whose loop ended without approval, has not called it.
C27_GateOnceAfterApproval ==
    /\ cnt.gate <= 1
    /\ (ppc \in {"gate", "gatefix"} \/ cnt.gate = 1) => approved
    /\ (ppc = "done" /\ result.status \in {"fixer_failed", "writer_hard_fail"})
       => cnt.gate = 0
    /\ (ppc = "done" /\ ~approved)
       => (cnt.gate = 0 /\ result.final_gate = NoReview)

\* C27 witness: an execution ended after the one gate call, which followed an
\* approval won in the loop.
C27_Witness ==
    /\ ppc = "done"
    /\ cnt.gate = 1
    /\ approved
    /\ rounds >= 1
    /\ result.final_gate # NoReview

\* C28: in one execution the Writer is called at most twice, the second time
\* only after the first draft failed validation and then with a retry_reason
\* (the first call has none); the Fixer is called at most once after the Final
\* Gate, and only when the gate approved and gave non-empty fix_suggestions.
C28_WriterTwiceGateFixerOnce ==
    /\ cnt.writer <= 2
    /\ cnt.writer = 2 => (Len(wvalid) >= 1 /\ ~wvalid[1])
    /\ cnt.retry_reason = (IF cnt.writer = 2 THEN 1 ELSE 0)
    /\ cnt.gatefix <= 1
    /\ (ppc = "gatefix" \/ cnt.gatefix = 1)
       => /\ cnt.gate = 1
          /\ PyBool(final_gate_review.approved)
          /\ final_gate_review.fix = "some"

\* C28 witness: an execution that needed the retry and ended after a post-gate
\* Fixer call.
C28_Witness ==
    /\ ppc = "done"
    /\ cnt.writer = 2
    /\ cnt.retry_reason = 1
    /\ cnt.gatefix = 1
    /\ final_gate_review.fix = "some"

\* C29: the rounds value of every result equals the number of Fixer calls made
\* inside the loop (a round counts whatever its review said, and a round the
\* Fixer failed in counts too); an approving initial review leads to the gate
\* with no round, a rejecting one to a first round, so that rounds is 0 exactly
\* when the initial review approved or the writer hard-failed.
C29_RoundsCountLoopFixerCalls ==
    [][ /\ ppc' = "done"
           => /\ result'.rounds = cnt'.fixer
              /\ result'.rounds = 0
                 <=> \/ result'.status = "writer_hard_fail"
                     \/ (cnt'.reviewer = 1 /\ approved')
        /\ (ppc = "review0" /\ ppc' # "raised")
           => /\ approved' = PyBool(review'.approved)
              /\ approved' => (ppc' = "gate" /\ rounds' = 0 /\ cnt'.fixer = 0)
              /\ ~approved' => ppc' = "fixer"
        /\ ppc = "fixer" => cnt'.fixer = cnt.fixer + 1
        /\ (ppc = "review" /\ ppc' # "raised")
           => (rounds' = rounds + 1 /\ rounds' = cnt.fixer)
        /\ ppc \in {"gate", "gatefix"}
           => (rounds' = rounds /\ cnt'.fixer = cnt.fixer /\ cnt'.reviewer = cnt.reviewer)
      ]_vars

\* C29 witness: a result of the second round's Fixer failure, after a first
\* round whose review did not approve: rounds = 2 with two Fixer calls.
C29_Witness ==
    /\ ppc = "done"
    /\ result.status = "fixer_failed"
    /\ result.rounds = 2
    /\ cnt.fixer = 2
    /\ cnt.reviewer = 2

\* C30: once run_all_cases has processed a case, the case record carries the
\* terminal status the workflow returned and a last_run_at that is the
\* timestamp of that run, not null.
C30_ProcessedCaseStamped ==
    \A i \in 1..Len(results) :
        LET case == cases[results[i].case]
        IN  /\ case.status = results[i].status
            /\ case.status \in TerminalStatuses
            /\ case.last_run_at # "none"

\* C31: every case record append_new_cases_from_seeds adds to the Case Store
\* has status todo, a created_at timestamp and last_run_at null, and so is
\* pending for run_all_cases.
C31_NewCasesAreTodo ==
    appended.pc = "returned"
    => \A i \in 1..Len(appended.new_cases) :
          LET c == appended.new_cases[i]
          IN  /\ c.status = "todo"
              /\ c.created_at \notin {"none", "absent"}
              /\ c.last_run_at = "none"
              /\ is_pending(c)

\* C36: a call of append_new_cases_from_seeds that an exception leaves during
\* the generation leaves cases.jsonl exactly as it was, whatever had been
\* generated before the exception.
C36_FailedAppendLeavesStore ==
    [][ (procs' = procs /\ runs' = runs + 1 /\ appended'.pc = "raised")
        => store' = store ]_vars

\* C36 witness: a call failed after it had generated a case, and the store
\* holds what the call had loaded.
C36_Witness ==
    /\ appended.pc = "raised"
    /\ appended.new_cases # <<>>
    /\ appended.existing # <<>>
    /\ load_cases(store) = appended.existing

\* C32: a result with status blocked_by_final_gate comes from an execution in
\* which the Final Gate was called and answered approved = false: final_gate
\* is not null and the loop approval in the result is true.
C32_GateBlockMeansGateRejected ==
    (ppc = "done" /\ result.status = "blocked_by_final_gate")
    => /\ cnt.gate = 1
       /\ result.final_gate # NoReview
       /\ ~PyBool(result.final_gate.approved)
       /\ result.approved

\* C33: with invocations of run_all_cases one after the other and no reset
\* from outside, the workflow returns a status for a case at most once: a
\* case that a run gave a terminal status is not processed again, and a case
\* named in the store as settled stays settled.
C33_CaseRunAtMostOnce ==
    \A p \in DOMAIN procs :
        \A j, k \in 1..Len(procs[p].ran) :
            procs[p].ran[j] = procs[p].ran[k] => j = k

\* The cases of a stored collection that one invocation with the given
\* max_cases_per_run does not process: those whose status is neither unset
\* nor todo, and those with that many unset or todo cases before them.
NotProcessed(old, max) ==
    {i \in 1..Len(old) :
        \/ old[i].status \notin {"none", "todo"}
        \/ Cardinality({j \in 1..(i - 1) : old[j].status \in {"none", "todo"}}) >= max}

\* C34: when run_all_cases saves, the file holds as many cases as it held
\* when it was read, in the same order, and every case the invocation did not
\* process (settled, or pending beyond max_cases_per_run) with every field
\* as it was.
C34_UnprocessedWrittenBackUnchanged ==
    [][ \A p \in DOMAIN procs :
          (procs[p].pc = "loop" /\ procs'[p].pc = "returned")
          => LET old == load_cases(store)
                 new == load_cases(store')
             IN  /\ Len(new) = Len(old)
                 /\ \A i \in 1..Len(old) : new[i].case_id = old[i].case_id
                 /\ \A i \in NotProcessed(old, procs[p].max) : new[i] = old[i] ]_vars

\* C34 witness: a second invocation with max_cases_per_run = 1 has returned
\* after passing over the case the first one settled and processing the next;
\* the file holds both, settled, in their order.
C34_Witness ==
    /\ procs[1].pc = "returned"
    /\ procs[1].max = 1
    /\ procs[1].ran = <<1, 2>>
    /\ Len(load_cases(store)) = 2
    /\ load_cases(store)[1].status = "fixer_failed"
    /\ load_cases(store)[2].status \notin {"none", "todo"}

\* C35: with test_lenient false a returned loop approval of true rests on the
\* most recent Reviewer verdict having approved true; and in either mode a
\* result approved without any Fixer call carries the initial review itself,
\* approving and without the lenient note.
C35_ApprovalRestsOnReviewer ==
    (ppc = "done" /\ result.approved)
    => /\ result.review # NoReview
       /\ cnt.reviewer >= 1
       /\ ~test_lenient => PyBool(result.review.approved)
       /\ cnt.fixer = 0 =>
             /\ cnt.reviewer = 1
             /\ PyBool(result.review.approved)
             /\ \A i \in 1..Len(result.review.reasons) :
                   result.review.reasons[i] # LenientNote

C35_Witness ==
    /\ ppc = "done"
    /\ result.approved
    /\ test_lenient
    /\ ~PyBool(result.review.approved)
    /\ cnt.reviewer = 2
    /\ cnt.fixer = 1
    /\ result.review.reasons[Len(result.review.reasons)] = LenientNote

\* C37: a case whose publish step failed is stored with status
\* approved_for_publish once its invocation is over, and no later publish
\* attempt is made for it.
C37_FailedPublishNotRetried ==
    \A p \in DOMAIN procs :
        \A j \in 1..Len(procs[p].published) :
            procs[p].published[j].status = "failed"
            => /\ \A k \in 1..Len(procs[p].published) :
                     k > j => procs[p].published[k].pos # procs[p].published[j].pos
               /\ procs[p].pc \in {"returned", "crashed"}
                  => load_cases(store)[procs[p].published[j].pos].status
                        = "approved_for_publish"

\* C38: two different cases of the Case Store are never published under the
\* same page identifier (the case_id that names the HTML file and the
\* catalog slug).
C38_DistinctPageIds ==
    \A p \in DOMAIN procs :
        \A j, k \in 1..Len(procs[p].published) :
            ( /\ procs[p].published[j].status = "success"
              /\ procs[p].published[k].status = "success"
              /\ procs[p].published[j].case_id = procs[p].published[k].case_id )
            => procs[p].published[j].pos = procs[p].published[k].pos

====
